---- MODULE Spec2Model ----
(***************************************************************************)
(* FIDO 0.4 (src/src/fido/run.py): format identification of digital        *)
(* objects.  The model covers the Fido class and main: the sampling of a   *)
(* file or of a zip item into a head and a tail buffer, the signature      *)
(* matcher with its priority reduction, the driver loop that prints one    *)
(* record per match, and the summary main prints after it.                 *)
(*                                                                         *)
(* Bytes are one-character strings, and a Python string is the sequence of *)
(* its characters.  A compiled regular expression is the sequence of its   *)
(* atoms: a literal byte, or "." which (re.DOTALL) matches any byte.       *)
(*                                                                         *)
(* time.clock is an input: the clock names the pattern evaluations that    *)
(* take more than 0.05 s, the order of the accumulated times and the time  *)
(* main measures.  os.stat is an input: a file has its bytes and the size  *)
(* its stat reports.  An exception is the name of its class, "none" when   *)
(* the call returned.  None is the empty tuple, and a format, a signature *)
(* and a pattern are named <<FormatID>>, <<FormatID, SignatureID>> and     *)
(* <<FormatID, SignatureID, index>>.                                       *)
(*                                                                         *)
(* A call is modelled by the list of the things it does to the Fido object *)
(* and to sys.stdout, in the order the code does them.  KeyboardInterrupt  *)
(* can arrive between any two of them, and main then reports the state the *)
(* run was in.                                                             *)
(***************************************************************************)
EXTENDS Integers, Sequences, FiniteSets, TLC

VARIABLES
    formats,          \* self.formats: the catalog, a sequence of Format records
    bufsize,          \* self.bufsize
    quiet,            \* self.quiet
    current_count,    \* self.current_count
    current_file,     \* self.current_file
    current_filesize, \* self.current_filesize
    current_format,   \* self.current_format
    current_sig,      \* self.current_sig
    current_pat,      \* self.current_pat
    time_formats,     \* the keys of self.time_formats other than 'name'
    time_sigs,        \* the keys of self.time_sigs other than 'name'
    clock,            \* the pattern evaluations time.clock measures above 0.05 s
    object,           \* the bytes of the object handed to the sampler
    bofbuffer,        \* the head buffer of the last object matched
    eofbuffer,        \* the tail buffer of the last object matched
    matches,          \* the list returned by the last check_formats
    sig,              \* the signature handed to check_sig
    sigrun,           \* the outcome of the last check_sig
    roots,            \* the roots handed to Fido.check
    recurse,          \* the recurse flag of Fido.check
    zip,              \* the zip flag of Fido.check
    idx,              \* the number of turns of the loop of Fido.check that ended
    stdout,           \* the lines written to sys.stdout, in order
    log,              \* the objects matched so far, each with its sample and matches
    pc                \* position of the caller

vars == <<formats, bufsize, quiet, current_count, current_file, current_filesize,
          current_format, current_sig, current_pat, time_formats, time_sigs, clock,
          object, bofbuffer, eofbuffer, matches, sig, sigrun, roots, recurse, zip,
          idx, stdout, log, pc>>

-----------------------------------------------------------------------------
(* Bounds *)

MaxFormats == 3
MaxSize == 5
MaxBufsize == 2
MaxPatterns == 3
MaxRoots == 2

-----------------------------------------------------------------------------
(* Bytes, buffers and regular expressions *)

Byte == {"P", "K"}

Dot == "."

None == <<>>

NoException == "none"

min(a, b) == IF a < b THEN a ELSE b

SeqsUpTo(S, n) == UNION {[1..k -> S] : k \in 0..n}

\* file.read(n) at position pos of data: the bytes read
read(data, pos, n) == SubSeq(data, pos + 1, min(pos + n, Len(data)))

\* the position after file.read(n)
tell(data, pos, n) == min(pos + n, Len(data))

atom_matches(a, byte) == a = Dot \/ a = byte

\* the regex matches the buffer at offset off (0-based)
match_at(regex, buffer, off) ==
    /\ off + Len(regex) <= Len(buffer)
    /\ \A k \in 1..Len(regex) : atom_matches(regex[k], buffer[off + k])

\* re.match(regex, buffer): a match at offset 0 only
re_match(regex, buffer) == match_at(regex, buffer, 0)

\* re.search(regex, buffer): a match at any offset
re_search(regex, buffer) == \E off \in 0..Len(buffer) : match_at(regex, buffer, off)

\* needle in hay, for two Python strings
contains(needle, hay) ==
    \E off \in 0..(Len(hay) - Len(needle)) :
        \A k \in 1..Len(needle) : hay[off + k] = needle[k]

-----------------------------------------------------------------------------
(* Catalog entities *)

\* the PositionType values of PRONOM
BOF == <<"A", "b", "s", "o", "l", "u", "t", "e", " ", "f", "r", "o", "m", " ", "B", "O", "F">>

EOF == <<"A", "b", "s", "o", "l", "u", "t", "e", " ", "f", "r", "o", "m", " ", "E", "O", "F">>

Variable == <<"V", "a", "r", "i", "a", "b", "l", "e">>

IndirectBOF == <<"I", "n", "d", "i", "r", "e", "c", "t", " ", "F", "r", "o", "m", " ", "B", "O", "F">>

IndirectEOF == <<"I", "n", "d", "i", "r", "e", "c", "t", " ", "F", "r", "o", "m", " ", "E", "O", "F">>

\* a PositionType check_sig does not know
Indirect == <<"I", "n", "d", "i", "r", "e", "c", "t">>

\* 'BOF' in b.PositionType
has_BOF(pt) == contains(<<"B", "O", "F">>, pt)

\* 'EOF' in b.PositionType
has_EOF(pt) == contains(<<"E", "O", "F">>, pt)

\* 'Variable' in b.PositionType
has_Variable(pt) == contains(<<"V", "a", "r", "i", "a", "b", "l", "e">>, pt)

Pat(pt, regex) == [PositionType |-> pt, regex |-> regex]

Sig(id, bs) == [SignatureID |-> id, bytesequences |-> bs]

HasPriorityOver == "Has priority over"

Fmt(id, puid, sigs, targets) ==
    [FormatID |-> id, Identifier |-> puid, signatures |-> sigs,
     relatedformat |-> {<<HasPriorityOver, t>> : t \in targets}]

-----------------------------------------------------------------------------
(* Matcher *)

\* one thing a call does to the Fido object or to sys.stdout, in the order
\* the code does it: an assignment to one of self.current_file,
\* current_filesize, current_format, current_sig and current_pat, an
\* increment of self.current_count, a key set in self.time_formats or
\* self.time_sigs, a line written to "stdout"; "log" has what check_formats
\* returned for an object
Set(var, val) == [var |-> var, val |-> val]

\* the values the events give to var, in order
Vals(events, var) ==
    LET hits == SelectSeq(events, LAMBDA ev : ev.var = var)
    IN [k \in 1..Len(hits) |-> hits[k].val]

\* the value of var after the events, old being its value before them
Last(events, var, old) ==
    LET vals == Vals(events, var)
    IN IF Len(vals) = 0 THEN old ELSE vals[Len(vals)]

\* the keys the events set in the table var
Keys(events, var) ==
    LET vals == Vals(events, var)
    IN {vals[k] : k \in 1..Len(vals)}

\* what check_sig leaves: the value returned, the exception that left it, the
\* index of the pattern self.current_pat ends at (0: no pattern), and whether
\* line 213 added the signature to self.time_sigs
SigRun(ret, raised, last, timed) ==
    [ret |-> ret, raised |-> raised, last |-> last, timed |-> timed]

RECURSIVE sig_loop(_, _, _, _, _, _)
\* the for loop of check_sig from pattern i on; slow holds the indexes of the
\* patterns whose evaluation takes more than 0.05 s: the "Slow sig" line mixes
\* {} with {1...} in its format string, and format raises ValueError
sig_loop(bs, i, match, bof, eof, slow) ==
    IF i > Len(bs)
    THEN SigRun(match, NoException, i - 1, TRUE)
    ELSE LET b == bs[i]
             timed(m) == IF i \in slow
                         THEN SigRun(FALSE, "ValueError", i, FALSE)
                         ELSE sig_loop(bs, i + 1, m, bof, eof, slow)
         IN
         IF has_BOF(b.PositionType)
         THEN IF ~re_match(b.regex, bof)
              THEN SigRun(FALSE, NoException, i, FALSE)
              ELSE timed(match)
         ELSE IF has_EOF(b.PositionType)
         THEN IF ~re_match(b.regex, eof)
              THEN SigRun(FALSE, NoException, i, FALSE)
              ELSE timed(match)
         ELSE IF has_Variable(b.PositionType)
         THEN IF ~re_search(b.regex, bof)
              THEN timed(FALSE)
              ELSE timed(match)
         ELSE SigRun(FALSE, "Exception", i, FALSE)

\* check_sig with the two buffers taken for each other
check_sig_swapped(s, bof, eof, slow) == sig_loop(s.bytesequences, 1, TRUE, eof, bof, slow)

check_sig(s, bof, eof, slow) == sig_loop(s.bytesequences, 1, TRUE, bof, eof, slow)

\* what check_format leaves: the exception that left it, the pair returned,
\* and what it did, in order
FormatRun(raised, match, events) ==
    [raised |-> raised, match |-> match, events |-> events]

\* the evaluations of the clock that belong to part k of a call
Under(slow, k) == {SubSeq(t, 2, Len(t)) : t \in {u \in slow : u[1] = k}}

\* the pattern indexes of the clock of one signature
Indexes(slow) == {t[1] : t \in slow}

\* the name of signature k of the format
SigName(format, k) == <<format.FormatID, format.signatures[k].SignatureID>>

\* what check_sig did when it left r for signature k: line 196 for each
\* pattern it came to, and line 213 when its loop ended
PatEvents(format, k, r) ==
    [j \in 1..r.last |-> Set("current_pat", Append(SigName(format, k), j))]
    \o (IF r.timed THEN <<Set("time_sigs", SigName(format, k))>> ELSE <<>>)

\* line 183, and what check_sig then did
SigEvents(format, k, r) ==
    <<Set("current_sig", SigName(format, k))>> \o PatEvents(format, k, r)

\* line 188
FormatTimed(format) == Set("time_formats", <<format.FormatID>>)

RECURSIVE format_loop(_, _, _, _, _, _)
\* the body of the loop of check_format once check_sig has left r for
\* signature k; line 188 is reached unless check_sig raised
format_step(format, k, bof, eof, slow, events, r) ==
    IF r.raised # NoException
    THEN FormatRun(r.raised, None, events \o SigEvents(format, k, r))
    ELSE IF r.ret
    THEN FormatRun(NoException, <<format, format.signatures[k]>>,
                   Append(events \o SigEvents(format, k, r), FormatTimed(format)))
    ELSE format_loop(format, k + 1, bof, eof, slow, events \o SigEvents(format, k, r))

\* the for loop of check_format from signature k on; slow holds the pairs
\* <<signature index, pattern index>> of the slow evaluations
format_loop(format, k, bof, eof, slow, events) ==
    IF k > Len(format.signatures)
    THEN FormatRun(NoException, None, Append(events, FormatTimed(format)))
    ELSE format_step(format, k, bof, eof, slow, events,
                     check_sig(format.signatures[k], bof, eof, Indexes(Under(slow, k))))

\* check_format without the break: the last matching signature wins
check_format_last(format, bof, eof, slow) ==
    LET hits == {j \in 1..Len(format.signatures) :
                    check_sig(format.signatures[j], bof, eof, Indexes(Under(slow, j))).ret}
    IN IF hits = {} THEN FormatRun(NoException, None, <<>>)
       ELSE FormatRun(NoException,
                      <<format, format.signatures[CHOOSE j \in hits : \A h \in hits : h <= j]>>,
                      <<>>)

check_format(format, bof, eof, slow) == format_loop(format, 1, bof, eof, slow, <<>>)

\* as_good_as_any with its first line, "return True", left in
as_good_as_any_true(f1, match_list) == TRUE

as_good_as_any(f1, match_list) ==
    ~ \E k \in 1..Len(match_list) :
        LET f2 == match_list[k][1] IN
            /\ f1 # f2
            /\ \E r \in f2.relatedformat :
                   r[1] = HasPriorityOver /\ r[2] = f1.FormatID

\* what check_formats leaves: the exception that left it, the list, and what
\* it did, in order
FormatsRun(raised, result, events) ==
    [raised |-> raised, result |-> result, events |-> events]

\* line 163
Counted == Set("current_count", 1)

\* line 166 for the format at position i
FormatSet(fs, i) == Set("current_format", <<fs[i].FormatID>>)

RECURSIVE first_pass(_, _, _, _, _, _, _)
\* the body of the first loop of check_formats once check_format has left r
\* for the format at position i
first_step(fs, i, result, bof, eof, slow, events, r) ==
    IF r.raised # NoException
    THEN FormatsRun(r.raised, result, events \o r.events)
    ELSE IF r.match # None
    THEN first_pass(fs, i + 1, Append(result, r.match), bof, eof, slow,
                    events \o r.events)
    ELSE first_pass(fs, i + 1, result, bof, eof, slow, events \o r.events)

\* the first loop of check_formats from the format at position i on; slow
\* holds the triples <<format position, signature index, pattern index>>
first_pass(fs, i, result, bof, eof, slow, events) ==
    IF i > Len(fs) THEN FormatsRun(NoException, result, events)
    ELSE IF as_good_as_any(fs[i], result)
         THEN first_step(fs, i, result, bof, eof, slow, Append(events, FormatSet(fs, i)),
                         check_format(fs[i], bof, eof, Under(slow, i)))
         ELSE first_pass(fs, i + 1, result, bof, eof, slow,
                         Append(events, FormatSet(fs, i)))

second_pass(result) == SelectSeq(result, LAMBDA m : as_good_as_any(m[1], result))

\* the second loop of check_formats on what the first loop left
filtered(r) ==
    IF r.raised # NoException THEN r
    ELSE FormatsRun(NoException, second_pass(r.result), r.events)

\* check_formats without the removal of the non-preferred formats
check_formats_one_pass(fs, bof, eof, slow) ==
    first_pass(fs, 1, <<>>, bof, eof, slow, <<Counted>>)

check_formats(fs, bof, eof, slow) ==
    filtered(first_pass(fs, 1, <<>>, bof, eof, slow, <<Counted>>))
-----------------------------------------------------------------------------
(* Sampler *)

Sample(size, bof, eof) == [size |-> size, bofbuffer |-> bof, eofbuffer |-> eof]

\* f.seek(-B, 2) on a file holding data raises IOError: the offset is before
\* the start of the file
seek_fails(data, B) == Len(data) < B

\* check_file with the seek left out: the tail is read where the head ended
sample_file_noseek(data, size, B) ==
    LET bof == read(data, 0, B)
    IN Sample(size, bof, IF size > B THEN read(data, tell(data, 0, B), B) ELSE bof)

\* the reads of check_file on a file holding data whose os.stat gives size;
\* the seek is from the end of the data
sample_file(data, size, B) ==
    LET bof == read(data, 0, B)
    IN Sample(size, bof, IF size > B THEN read(data, Len(data) - B, B) ELSE bof)

RECURSIVE skip_buffers(_, _, _, _, _)
\* for unused_i in range(1, n - 1): f.read(self.bufsize); the position reached
skip_buffers(data, pos, i, n, B) ==
    IF i >= n - 1 THEN pos
    ELSE skip_buffers(data, tell(data, pos, B), i + 1, n, B)

\* the reads of check_zipfile on one item holding data
sample_zip_item(data, B) ==
    LET file_size == Len(data)
        bof == read(data, 0, B)
        n == file_size \div B
        r == file_size % B
        skipped == skip_buffers(data, tell(data, 0, B), 1, n, B)
        rest == tell(data, skipped, r)
    IN Sample(file_size, bof, IF file_size > B THEN read(data, rest, B) ELSE bof)

-----------------------------------------------------------------------------
(* Driver *)

ZipPuid == "x-fmt/263"

is_zip(ms) == Len(ms) = 1 /\ ms[1][1].Identifier = ZipPuid

\* a line of sys.stdout without the times it shows: its kind, the path, the
\* format and the signature, the match count and self.current_filesize; 0
\* where the line has no such field
Record(kind, name, format, s, count, size) ==
    [kind |-> kind, name |-> name, format |-> format, sig |-> s, count |-> count,
     size |-> size]

\* the lines print_matches writes for the object fullname while
\* self.current_filesize is size
print_matches(fullname, ms, size) ==
    LET count == Len(ms) IN
        IF count = 0 THEN <<Record("KO", fullname, 0, 0, 0, size)>>
        ELSE [k \in 1..count |->
                 Record("OK", fullname, ms[k][1].FormatID, ms[k][2].SignatureID, count,
                        size)]

Sampled(name, smp, ms) == [name |-> name, sample |-> smp, matches |-> ms]

\* what a call leaves behind: what it did, in order, the objects matched with
\* what check_formats returned for them, and the exception that left it
Effect(events, sampled, raised) ==
    [events |-> events, sampled |-> sampled, raised |-> raised]

NoEffect == Effect(<<>>, <<>>, NoException)

\* a call that only assigns attributes
Assigned(events) == Effect(events, <<>>, NoException)

\* a call that only writes lines
Written(out) == Effect([k \in 1..Len(out) |-> Set("stdout", out[k])], <<>>, NoException)

\* the effect a followed by the effect b
Join(a, b) == Effect(a.events \o b.events, a.sampled \o b.sampled, b.raised)

\* an exception raised after the effect a
Raise(a, exception) == Effect(a.events, a.sampled, exception)

\* the assignments of self.current_file and self.current_filesize
Named(name) == Set("current_file", name)

Sized(size) == Set("current_filesize", size)

\* the slow evaluations of the clock while the object name is matched
ClockOf(ticks, name) == Under(ticks, name)

\* the sampling and the matching of one object whose size and sample are
\* known: self.current_file and self.current_filesize are assigned,
\* check_formats is entered and leaves r
matched_as(name, smp, r) ==
    IF r.raised # NoException
    THEN Effect(<<Named(name), Sized(smp.size)>> \o r.events, <<>>, r.raised)
    ELSE Effect(Append(<<Named(name), Sized(smp.size)>> \o r.events,
                       Set("log", Sampled(name, smp, r.result))),
                <<Sampled(name, smp, r.result)>>, NoException)

\* the reads of an object done, its matching
matched(fs, name, smp, ticks) ==
    matched_as(name, smp,
               check_formats(fs, smp.bofbuffer, smp.eofbuffer, ClockOf(ticks, name)))

RECURSIVE zip_loop(_, _, _, _, _, _, _, _)
\* the body of the loop of check_zipfile from line 126 on, m being what the
\* matching of item k left
zip_step(fs, B, q, zipfullname, items, k, ticks, acc, m) ==
    IF m.raised # NoException THEN Join(acc, m)
    ELSE zip_loop(fs, B, q, zipfullname, items, k + 1, ticks,
                  Join(Join(acc, m),
                       Written(print_matches(Append(zipfullname, k), m.sampled[1].matches,
                                             m.sampled[1].sample.size)
                               \o (IF is_zip(m.sampled[1].matches) /\ ~q
                                   THEN <<Record("SKIP", Append(zipfullname, k), 0, 0, 0, 0)>>
                                   ELSE <<>>))))

\* the loop of check_zipfile over zip.infolist() from item k on
zip_loop(fs, B, q, zipfullname, items, k, ticks, acc) ==
    IF k > Len(items) THEN acc
    ELSE IF Len(items[k].data) = 0
         THEN zip_loop(fs, B, q, zipfullname, items, k + 1, ticks, acc)
    ELSE IF items[k].error # NoException /\ items[k].at = "open"
         THEN Raise(acc, items[k].error)
    ELSE IF items[k].error # NoException
         THEN Raise(Join(acc, Assigned(<<Named(Append(zipfullname, k)),
                                          Sized(Len(items[k].data))>>)),
                    items[k].error)
    ELSE zip_step(fs, B, q, zipfullname, items, k, ticks, acc,
                  matched(fs, Append(zipfullname, k), sample_zip_item(items[k].data, B),
                          ticks))

check_zipfile(fs, B, q, zipfullname, file, ticks) ==
    IF file.is_zipfile
    THEN zip_loop(fs, B, q, zipfullname, file.items, 1, ticks, NoEffect)
    ELSE Raise(NoEffect, "Exception")

\* check_file: line 137, open, stat, the reads, check_formats
check_file(fs, B, filename, file, ticks) ==
    IF file.error # NoException /\ file.at = "open"
    THEN Raise(Assigned(<<Named(filename)>>), file.error)
    ELSE IF file.error # NoException
    THEN Raise(Assigned(<<Named(filename), Sized(file.size)>>), file.error)
    ELSE IF file.size > B /\ seek_fails(file.data, B)
    THEN Raise(Assigned(<<Named(filename), Sized(file.size)>>), "IOError")
    ELSE matched(fs, filename, sample_file(file.data, file.size, B), ticks)

\* lines 96 to 98 of check_file_or_zip, c being what check_file left
try_rest(fs, B, q, filename, file, z, ticks, c) ==
    IF c.raised # NoException THEN c
    ELSE IF z /\ is_zip(c.sampled[1].matches)
    THEN Join(Join(c, Written(print_matches(filename, c.sampled[1].matches,
                                            c.sampled[1].sample.size))),
              check_zipfile(fs, B, q, filename, file, ticks))
    ELSE Join(c, Written(print_matches(filename, c.sampled[1].matches,
                                       c.sampled[1].sample.size)))

\* the except clause of check_file_or_zip, try being what its try block left
except_IOError(filename, try) ==
    IF try.raised = "IOError"
    THEN Join(Raise(try, NoException), Written(<<Record("ERR", filename, 0, 0, 0, 0)>>))
    ELSE try

\* line 92, then the try statement
check_file_or_zip(fs, B, q, filename, file, z, ticks) ==
    Join(Assigned(<<Named(filename)>>),
         except_IOError(filename,
                        try_rest(fs, B, q, filename, file, z, ticks,
                                 check_file(fs, B, filename, file, ticks))))

RECURSIVE walk(_, _, _)
\* the files os.walk(root) yields from its step w on, each with its path
walk(steps, i, w) ==
    IF w > Len(steps) THEN <<>>
    ELSE [j \in 1..Len(steps[w]) |-> [name |-> <<i, w, j>>, file |-> steps[w][j]]]
         \o walk(steps, i, w + 1)

\* the files one turn of the loop of Fido.check hands to check_file_or_zip,
\* in order: the root when os.path.isfile(root), else the files of os.walk,
\* of its first step only unless recurse
worklist(root, i, rec) ==
    IF root.isfile THEN <<[name |-> <<i>>, file |-> root.file]>>
    ELSE walk(IF rec THEN root.steps ELSE SubSeq(root.steps, 1, min(1, Len(root.steps))),
              i, 1)

RECURSIVE files_loop(_, _, _, _, _, _, _, _)
\* the loop over the worklist once check_file_or_zip has been called on its
\* file at position j, e being what the loop left so far
files_step(fs, B, q, work, j, z, ticks, e) ==
    IF e.raised # NoException THEN e
    ELSE files_loop(fs, B, q, work, j + 1, z, ticks, e)

\* check_file_or_zip on the files of the worklist from position j on; an
\* exception ends the loop
files_loop(fs, B, q, work, j, z, ticks, acc) ==
    IF j > Len(work) THEN acc
    ELSE files_step(fs, B, q, work, j, z, ticks,
                    Join(acc, check_file_or_zip(fs, B, q, work[j].name, work[j].file,
                                                z, ticks)))

\* one turn of the loop of Fido.check over roots
check_root(fs, B, q, root, i, rec, z, ticks) ==
    files_loop(fs, B, q, worklist(root, i, rec), 1, z, ticks, NoEffect)

-----------------------------------------------------------------------------
(* Summary and main *)

\* print_times lists the first TopTimes entries of a time table
TopTimes == 10

\* the sequences that list the keys of a time table once each: the orders
\* sorted() can give them by their accumulated times
Orders(keys) ==
    {o \in [1..Cardinality(keys) -> keys] :
        \A i \in DOMAIN o : \A j \in DOMAIN o : i # j => o[i] # o[j]}

TimeLine(table, key) == [kind |-> "TIME", table |-> table, key |-> key]

\* print_times on the table called table whose keys other than 'name', sorted
\* by time, are order: the 'name' entry holds a string, sorts after every
\* number, and has not the attribute asked of a key
print_times(table, order) ==
    IF Len(order) >= TopTimes
    THEN Written([k \in 1..TopTimes |-> TimeLine(table, order[k])])
    ELSE Raise(Written([k \in 1..Len(order) |-> TimeLine(table, order[k])]),
               "AttributeError")

\* the second print_times of print_summary, e being what the first one left
then_times(e, table, order) ==
    IF e.raised # NoException THEN e ELSE Join(e, print_times(table, order))

LoadedLine(n) == [kind |-> "LOADED", formats |-> n]

ProcessedLine(count, msecs) ==
    [kind |-> "PROCESSED", count |-> count, msecs |-> msecs,
     rate |-> (count * 1000) \div msecs]

\* print_summary(secs, diagnose) with secs in milliseconds; count / secs
\* raises ZeroDivisionError when secs is 0
print_summary(q, fs, count, msecs, diagnose, format_order, sig_order) ==
    IF q THEN NoEffect
    ELSE IF msecs = 0 THEN Raise(Written(<<LoadedLine(Len(fs))>>), "ZeroDivisionError")
    ELSE IF diagnose
    THEN then_times(Join(Written(<<LoadedLine(Len(fs)), ProcessedLine(count, msecs)>>),
                         print_times("Format", format_order)),
                    "Sig", sig_order)
    ELSE Written(<<LoadedLine(Len(fs)), ProcessedLine(count, msecs)>>)

\* line 9
version == "fido/0.4"

VersionLine == [kind |-> "VERSION", version |-> version]

\* lines 234 to 236 of main, v being args.v: exit raises SystemExit
start_of_main(v) ==
    IF v THEN Raise(Written(<<VersionLine>>), "SystemExit") ELSE NoEffect

\* the times main can measure between lines 244 and 255, in milliseconds
Msecs == {0, 500}

\* lines 256 and 257 of main
summary_of_main(q, fs, count, msecs, diagnose, format_order, sig_order) ==
    IF q THEN NoEffect
    ELSE print_summary(q, fs, count, msecs, diagnose, format_order, sig_order)

\* the line the KeyboardInterrupt handler of main writes: format raises
\* AttributeError on an attribute that is still None
interrupt_line(file, format, s, pat) ==
    IF format = None \/ s = None \/ pat = None
    THEN [kind |-> "ABORTED", name |-> file]
    ELSE [kind |-> "INTERRUPT", name |-> file, format |-> format, sig |-> s, pat |-> pat]

\* KeyboardInterrupt arrives in a call that would leave e, after the first n
\* of the things the call does
Cut(e, n) == Effect(SubSeq(e.events, 1, n), <<>>, "KeyboardInterrupt")

\* lines 249 to 254 of main once the line is chosen, e being what Fido.check
\* did until the KeyboardInterrupt: the line is written, and the raise of
\* line 254 raises the exception handled last, the AttributeError of line 251
\* when there was one
handled(e, line) ==
    Raise(Join(Raise(e, NoException), Written(<<line>>)),
          IF line.kind = "ABORTED" THEN "AttributeError" ELSE "KeyboardInterrupt")

\* the except clause of main, lines 247 to 254, e being what Fido.check did
\* until the KeyboardInterrupt and file, format, s and pat the attributes
\* before it
except_KeyboardInterrupt(e, file, format, s, pat) ==
    handled(e, interrupt_line(Last(e.events, "current_file", file),
                              Last(e.events, "current_format", format),
                              Last(e.events, "current_sig", s),
                              Last(e.events, "current_pat", pat)))

-----------------------------------------------------------------------------
(* Files *)

\* a file holding data whose os.stat reports size
StatFile(data, size) ==
    [error |-> NoException, at |-> "", data |-> data, size |-> size,
     is_zipfile |-> FALSE, items |-> <<>>]

\* a regular file: its size is the number of its bytes
File(data) == StatFile(data, Len(data))

\* a file whose open or read raises IOError
Unreadable(data, at) ==
    [error |-> "IOError", at |-> at, data |-> data, size |-> Len(data),
     is_zipfile |-> FALSE, items |-> <<>>]

Item(data) == [data |-> data, error |-> NoException, at |-> ""]

\* an item whose zip.open or read raises the exception
BadItem(data, exception, at) == [data |-> data, error |-> exception, at |-> at]

Fill(n) == [k \in 1..n |-> "__"]

RECURSIVE LocalEntries(_, _)
\* the local file headers and the stored data of the items from k on; the
\* name of an item is one character
LocalEntries(items, k) ==
    IF k > Len(items) THEN <<>>
    ELSE <<"P", "K", "03", "04">> \o Fill(26) \o <<"n">> \o items[k].data
         \o LocalEntries(items, k + 1)

RECURSIVE CentralEntries(_, _)
\* the central directory entries of the items from k on
CentralEntries(items, k) ==
    IF k > Len(items) THEN <<>>
    ELSE <<"P", "K", "01", "02">> \o Fill(42) \o <<"n">> \o CentralEntries(items, k + 1)

\* the bytes of an archive holding the items, with the archive comment; "__"
\* stands for the bytes of the header fields
ZipData(items, comment) ==
    LocalEntries(items, 1) \o CentralEntries(items, 1)
    \o <<"P", "K", "05", "06">> \o Fill(17) \o <<"00">> \o comment

\* a valid archive: zipfile.is_zipfile is true of it
Zip(items) ==
    [error |-> NoException, at |-> "", data |-> ZipData(items, <<"K", "P">>),
     size |-> Len(ZipData(items, <<"K", "P">>)), is_zipfile |-> TRUE, items |-> items]

FileRoot(file) == [isfile |-> TRUE, file |-> file, steps |-> <<>>]

\* a directory, with the file lists os.walk yields for it, top first; a path
\* that does not exist is the directory without steps
DirRoot(steps) == [isfile |-> FALSE, file |-> File(<<>>), steps |-> steps]

-----------------------------------------------------------------------------
(* Inputs *)

SigsA == <<Sig(1, <<Pat(BOF, <<"P", "K">>)>>)>>

SigsB == <<Sig(2, <<Pat(Variable, <<"K">>), Pat(EOF, <<"P">>)>>),
           Sig(3, <<Pat(BOF, <<"K", Dot>>)>>)>>

FormatIDs == 1..MaxFormats

Puid(id) == IF id = 1 THEN ZipPuid ELSE "fmt/other"

\* every catalog of MaxFormats formats in declared order 1..MaxFormats, the
\* first one with the signatures SigsA and the others with SigsB, with any
\* priority relation between distinct formats
Catalogs ==
    {[i \in FormatIDs |-> Fmt(i, Puid(i), IF i = 1 THEN SigsA ELSE SigsB, t[i])] :
        t \in {r \in [FormatIDs -> SUBSET FormatIDs] : \A i \in FormatIDs : i \notin r[i]}}

\* pairs <<bofbuffer, eofbuffer>> the sampler hands to check_formats: of an
\* empty object, of objects no longer than the buffer, of longer objects, one
\* of them with a byte its tail alone holds, and of a zip item longer than the
\* buffer and shorter than two
Samples ==
    {<<<<>>, <<>>>>, <<<<"P", "K">>, <<"P", "K">>>>, <<<<"P", "K">>, <<"K", "P">>>>,
     <<<<"K", "P">>, <<"P", "K">>>>, <<<<"P", "P">>, <<"P", "K">>>>,
     <<<<"K", "P">>, <<>>>>}

\* the clocks of one check_formats: no slow evaluation, or a slow first
\* pattern of the first signature of the first format
MatchClocks == {{}, {<<1, 1, 1>>}}

Idle == SigRun(FALSE, NoException, 0, FALSE)

-----------------------------------------------------------------------------
(* The attributes of the Fido object a call assigns *)

\* the Fido object and sys.stdout after the events
Assigns(events) ==
    /\ current_file' = Last(events, "current_file", current_file)
    /\ current_filesize' = Last(events, "current_filesize", current_filesize)
    /\ current_format' = Last(events, "current_format", current_format)
    /\ current_sig' = Last(events, "current_sig", current_sig)
    /\ current_pat' = Last(events, "current_pat", current_pat)
    /\ current_count' = current_count + Len(Vals(events, "current_count"))
    /\ time_formats' = time_formats \cup Keys(events, "time_formats")
    /\ time_sigs' = time_sigs \cup Keys(events, "time_sigs")
    /\ stdout' = stdout \o Vals(events, "stdout")
    /\ log' = log \o Vals(events, "log")

-----------------------------------------------------------------------------
(* Specification of the matcher: one call of check_formats *)

InitMatch ==
    /\ formats \in Catalogs
    /\ bufsize = MaxBufsize
    /\ quiet = FALSE
    /\ current_count = 0
    /\ current_file = <<>>
    /\ current_filesize = 0
    /\ current_format = None
    /\ current_sig = None
    /\ current_pat = None
    /\ time_formats = {}
    /\ time_sigs = {}
    /\ clock = {}
    /\ object = <<>>
    /\ bofbuffer = <<>>
    /\ eofbuffer = <<>>
    /\ matches = <<>>
    /\ sig = None
    /\ sigrun = Idle
    /\ roots = <<>>
    /\ recurse = FALSE
    /\ zip = FALSE
    /\ idx = 0
    /\ stdout = <<>>
    /\ log = <<>>
    /\ pc = "idle"

\* the caller after check_formats left r
LeftFormats(r) ==
    /\ matches' = IF r.raised = NoException THEN r.result ELSE matches
    /\ Assigns(r.events)
    /\ pc' = IF r.raised = NoException THEN "done" ELSE "raised"

CheckFormats ==
    /\ pc = "idle"
    /\ \E smp \in Samples, c \in MatchClocks :
        /\ clock' = c
        /\ bofbuffer' = smp[1]
        /\ eofbuffer' = smp[2]
        /\ LeftFormats(check_formats(formats, smp[1], smp[2], c))
    /\ UNCHANGED <<formats, bufsize, quiet, object, sig, sigrun, roots, recurse, zip,
                   idx>>

NextMatch == CheckFormats

SpecMatch == InitMatch /\ [][NextMatch]_vars

-----------------------------------------------------------------------------
(* Properties of the matcher *)

Range(q) == {q[k] : k \in 1..Len(q)}

\* g has declared priority over f
Dominates(g, f) == <<HasPriorityOver, f.FormatID>> \in g.relatedformat

ResultFormats(ms) == {ms[k][1] : k \in 1..Len(ms)}

\* the anchor a PositionType stands for
Anchor(b) ==
    IF has_BOF(b.PositionType) THEN "BOF"
    ELSE IF has_EOF(b.PositionType) THEN "EOF"
    ELSE IF has_Variable(b.PositionType) THEN "Variable"
    ELSE "bad"

\* the pattern succeeds against the sample under its anchor rule
PatternSucceeds(b, bof, eof) ==
    \/ Anchor(b) = "BOF" /\ match_at(b.regex, bof, 0)
    \/ Anchor(b) = "EOF" /\ match_at(b.regex, eof, 0)
    \/ Anchor(b) = "Variable" /\ \E off \in 0..Len(bof) : match_at(b.regex, bof, off)

\* every pattern of s succeeds against the sample
SigMatches(s, bof, eof) ==
    \A b \in Range(s.bytesequences) : PatternSucceeds(b, bof, eof)

\* some signature of f matches the sample
Matching(f, bof, eof) ==
    \E j \in 1..Len(f.signatures) : SigMatches(f.signatures[j], bof, eof)

MatchingFormats(fs, bof, eof) == {f \in Range(fs) : Matching(f, bof, eof)}

\* the first signature of f, in declared order, that matches the sample
FirstMatchingSig(f, bof, eof) ==
    LET hits == {j \in 1..Len(f.signatures) : SigMatches(f.signatures[j], bof, eof)}
        j0 == CHOOSE j \in hits : \A h \in hits : j <= h
    IN f.signatures[j0]

\* the priority relation has no cycle inside the set S of formats
Acyclic(S) ==
    \A T \in SUBSET S :
        T # {} => \E f \in T : \A g \in T \ {f} : ~Dominates(g, f)

\* every two distinct formats of S are related in exactly one direction
Total(S) ==
    \A a \in S : \A b \in S \ {a} : Dominates(a, b) # Dominates(b, a)

\* the orders a catalog can list its formats in
CatalogOrders == Permutations(FormatIDs)

\* the catalog with its formats in the order p
Permuted(fs, p) == [i \in 1..Len(fs) |-> fs[p[i]]]

\* the variant of check_formats that tests every format in catalog order and
\* then removes the dominated ones
RECURSIVE all_matches(_, _, _, _, _)
all_matches(fs, i, result, bof, eof) ==
    IF i > Len(fs) THEN result
    ELSE LET match == check_format(fs[i], bof, eof, {}).match IN
         IF match # None
         THEN all_matches(fs, i + 1, Append(result, match), bof, eof)
         ELSE all_matches(fs, i + 1, result, bof, eof)

Unpruned(fs, bof, eof) == second_pass(all_matches(fs, 1, <<>>, bof, eof))

\* C1: no element of the list check_formats returns is dominated by another
\* element of that list.
C1_NoDominatedResult ==
    pc = "done" =>
        \A i \in 1..Len(matches) : \A j \in 1..Len(matches) :
            i # j => ~Dominates(matches[j][1], matches[i][1])

\* a format that matched was removed because a returned format dominates it
C1_Witness ==
    /\ pc = "done"
    /\ Len(matches) >= 2
    /\ \E f \in MatchingFormats(formats, bofbuffer, eofbuffer) :
        /\ f \notin ResultFormats(matches)
        /\ \E g \in ResultFormats(matches) : Dominates(g, f)

\* C2: every returned pair (f, s) has s among f's signatures and every
\* pattern of s succeeds against the sample under its anchor rule.
C2_ResultSigMatches ==
    pc = "done" =>
        \A k \in 1..Len(matches) :
            LET f == matches[k][1]
                s == matches[k][2]
            IN /\ f \in Range(formats)
               /\ s \in Range(f.signatures)
               /\ \A b \in Range(s.bytesequences) :
                      PatternSucceeds(b, bofbuffer, eofbuffer)

\* a signature with a Variable and an EOF pattern was returned for a sample
\* whose head and tail differ
C2_Witness ==
    /\ pc = "done"
    /\ bofbuffer # eofbuffer
    /\ \E k \in 1..Len(matches) : Len(matches[k][2].bytesequences) = 2

\* C3: when the priority relation is an acyclic total order among the formats
\* that match the sample, every permutation of the catalog returns the same
\* set of formats.
C3_OrderIndependent ==
    pc = "done" =>
        LET M == MatchingFormats(formats, bofbuffer, eofbuffer) IN
            (Total(M) /\ Acyclic(M)) =>
                \A p \in CatalogOrders :
                    ResultFormats(check_formats(Permuted(formats, p), bofbuffer,
                                                eofbuffer, {}).result)
                        = ResultFormats(matches)

\* three formats match, totally ordered, and the catalog lists the weakest first
C3_Witness ==
    /\ pc = "done"
    /\ LET M == MatchingFormats(formats, bofbuffer, eofbuffer) IN
        /\ Cardinality(M) >= 3
        /\ Total(M) /\ Acyclic(M)
        /\ formats[1] \in M
        /\ \A g \in M \ {formats[1]} : Dominates(g, formats[1])
    /\ Len(matches) = 1

\* C8: for an acyclic priority relation, check_formats returns the list of the
\* variant that tests every format and then removes the dominated ones.
C8_GuardIsOptimisation ==
    (pc = "done" /\ Acyclic(Range(formats))) =>
        matches = Unpruned(formats, bofbuffer, eofbuffer)

\* C10: a format that matches and is a priority target of no other matching
\* format is returned, paired with its first matching signature.
C10_Complete ==
    pc = "done" =>
        LET M == MatchingFormats(formats, bofbuffer, eofbuffer) IN
            \A f \in M :
                (\A g \in M \ {f} : ~Dominates(g, f))
                  => \E k \in 1..Len(matches) :
                         matches[k] = <<f, FirstMatchingSig(f, bofbuffer, eofbuffer)>>

\* an undominated format is returned with its second signature, the first one
\* having failed, while another matching format was dropped
C10_Witness ==
    /\ pc = "done"
    /\ \E k \in 1..Len(matches) :
        /\ Len(matches[k][1].signatures) = 2
        /\ matches[k][2] = matches[k][1].signatures[2]
    /\ MatchingFormats(formats, bofbuffer, eofbuffer) # ResultFormats(matches)

-----------------------------------------------------------------------------
(* Specification of check_sig: one call on a signature and a sample *)

Patterns ==
    {Pat(BOF, <<"P", "K">>), Pat(EOF, <<Dot, "P">>), Pat(Variable, <<"K">>),
     Pat(Variable, <<"P", "P">>), Pat(IndirectEOF, <<"K">>), Pat(Indirect, <<"P">>)}

Signatures ==
    {Sig(1, bs) : bs \in UNION {[1..k -> Patterns] : k \in 1..MaxPatterns}}

\* the clocks of one check_sig: any set of slow patterns
SigClocks == SUBSET {<<i>> : i \in 1..MaxPatterns}

InitSig ==
    /\ sig \in Signatures
    /\ formats = <<Fmt(1, "fmt/other", <<sig>>, {})>>
    /\ bufsize = MaxBufsize
    /\ quiet = FALSE
    /\ current_count = 0
    /\ current_file = <<>>
    /\ current_filesize = 0
    /\ current_format = None
    /\ current_sig = None
    /\ current_pat = None
    /\ time_formats = {}
    /\ time_sigs = {}
    /\ clock \in SigClocks
    /\ object = <<>>
    /\ bofbuffer = <<>>
    /\ eofbuffer = <<>>
    /\ matches = <<>>
    /\ sigrun = Idle
    /\ roots = <<>>
    /\ recurse = FALSE
    /\ zip = FALSE
    /\ idx = 0
    /\ stdout = <<>>
    /\ log = <<>>
    /\ pc = "idle"

\* the caller after check_sig left r
LeftSig(r) ==
    /\ sigrun' = r
    /\ Assigns(PatEvents(formats[1], 1, r))
    /\ pc' = IF r.raised = NoException THEN "done" ELSE "raised"

CheckSig ==
    /\ pc = "idle"
    /\ \E smp \in Samples :
        /\ bofbuffer' = smp[1]
        /\ eofbuffer' = smp[2]
        /\ LeftSig(check_sig(sig, smp[1], smp[2], Indexes(clock)))
    /\ UNCHANGED <<formats, bufsize, quiet, clock, object, matches, sig, roots,
                   recurse, zip, idx>>

NextSig == CheckSig

SpecSig == InitSig /\ [][NextSig]_vars

ValidAnchor(b) == Anchor(b) # "bad"

\* the patterns of s that fail against the sample
Failing(s, bof, eof) ==
    {i \in 1..Len(s.bytesequences) :
        ValidAnchor(s.bytesequences[i]) /\ ~PatternSucceeds(s.bytesequences[i], bof, eof)}

\* C9: once a pattern of any anchor fails, check_sig evaluates no later
\* pattern and returns false: with no slow evaluation, the pattern evaluated
\* last is the first that failed.
C9_ShortCircuit ==
    (pc # "idle" /\ clock = {} /\ Failing(sig, bofbuffer, eofbuffer) # {}) =>
        LET first == CHOOSE i \in Failing(sig, bofbuffer, eofbuffer) :
                         \A h \in Failing(sig, bofbuffer, eofbuffer) : i <= h
        IN (\A i \in 1..first : ValidAnchor(sig.bytesequences[i]))
               => (sigrun.last = first /\ sigrun.raised = NoException /\ ~sigrun.ret)

-----------------------------------------------------------------------------
(* Specification of the sampler: check_file on a file holding the object,  *)
(* check_zipfile on an archive whose one item holds the object             *)

DriverCatalog == <<Fmt(1, ZipPuid, SigsA, {2}), Fmt(2, "fmt/other", SigsB, {})>>

InitSample ==
    /\ formats = DriverCatalog
    /\ bufsize \in 1..MaxBufsize
    /\ quiet = FALSE
    /\ current_count = 0
    /\ current_file = <<>>
    /\ current_filesize = 0
    /\ current_format = None
    /\ current_sig = None
    /\ current_pat = None
    /\ time_formats = {}
    /\ time_sigs = {}
    /\ clock = {}
    /\ object \in SeqsUpTo(Byte, MaxSize)
    /\ bofbuffer = <<>>
    /\ eofbuffer = <<>>
    /\ matches = <<>>
    /\ sig = None
    /\ sigrun = Idle
    /\ roots = <<>>
    /\ recurse = FALSE
    /\ zip = FALSE
    /\ idx = 0
    /\ stdout = <<>>
    /\ log = <<>>
    /\ pc = "idle"

\* the state a call leaves: the Fido object and sys.stdout after what it did,
\* and the last object matched
Leaves(e) ==
    /\ Assigns(e.events)
    /\ bofbuffer' = Last(e.events, "log", Sampled(<<>>, Sample(0, bofbuffer, eofbuffer),
                                                  matches)).sample.bofbuffer
    /\ eofbuffer' = Last(e.events, "log", Sampled(<<>>, Sample(0, bofbuffer, eofbuffer),
                                                  matches)).sample.eofbuffer
    /\ matches' = Last(e.events, "log", Sampled(<<>>, Sample(0, bofbuffer, eofbuffer),
                                                matches)).matches

\* check_file_or_zip on a file holding the object; os.stat gives any size
CheckFile ==
    /\ pc = "idle"
    /\ \E size \in 0..MaxSize :
        Leaves(check_file_or_zip(formats, bufsize, quiet, <<1>>, StatFile(object, size),
                                 FALSE, clock))
    /\ pc' = "file"
    /\ UNCHANGED <<formats, bufsize, quiet, clock, object, sig, sigrun, roots,
                   recurse, zip, idx>>

CheckZipfile ==
    /\ pc = "idle"
    /\ Leaves(check_zipfile(formats, bufsize, quiet, <<1>>, Zip(<<Item(object)>>), clock))
    /\ pc' = "zipitem"
    /\ UNCHANGED <<formats, bufsize, quiet, clock, object, sig, sigrun, roots,
                   recurse, zip, idx>>

NextSample == CheckFile \/ CheckZipfile

SpecSample == InitSample /\ [][NextSample]_vars

\* bytes [from, to) of the object
Bytes(from, to) == SubSeq(object, from + 1, to)

\* C4: streaming mode, size S > B: the head is bytes [0, B) and the tail is
\* bytes [S-B, S) of the item.
C4_StreamingSample ==
    (pc = "zipitem" /\ Len(object) > bufsize) =>
        /\ bofbuffer = Bytes(0, bufsize)
        /\ eofbuffer = Bytes(Len(object) - bufsize, Len(object))

\* C5: random-access mode: for S <= B head and tail are both the whole object;
\* for S > B the head is bytes [0, B) and the tail is bytes [S-B, S).
C5_RandomAccessSample ==
    (pc = "file" /\ current_filesize = Len(object)) =>
        IF Len(object) <= bufsize
        THEN bofbuffer = object /\ eofbuffer = object
        ELSE /\ bofbuffer = Bytes(0, bufsize)
             /\ eofbuffer = Bytes(Len(object) - bufsize, Len(object))

\* a file longer than the buffer but shorter than two buffers was sampled, and
\* its head and tail differ
C5_Witness ==
    /\ pc = "file"
    /\ current_filesize = Len(object)
    /\ Len(object) > bufsize
    /\ Len(object) < 2 * bufsize
    /\ Len(eofbuffer) = bufsize
    /\ bofbuffer # eofbuffer

-----------------------------------------------------------------------------
(* Specification of the driver: Fido.check over a list of roots *)

\* files, among them one whose stat reports no size, as under /proc, and one
\* whose stat reports more than it holds; unreadable files; archives
Files ==
    {File(<<"K", "P">>), File(<<>>), File(<<"P", "K">>),
     StatFile(<<"K", "P", "K">>, 0), StatFile(<<"K">>, 3),
     Unreadable(<<"K", "P">>, "open"), Unreadable(<<>>, "read"),
     Zip(<<Item(<<"K", "P", "K">>)>>),
     Zip(<<Item(<<>>), Item(<<"P", "K">>)>>),
     Zip(<<BadItem(<<"K", "P">>, "IOError", "open"), Item(<<"K", "P">>)>>),
     Zip(<<BadItem(<<"K", "P">>, "BadZipfile", "read"), Item(<<"K", "P">>)>>)}

\* a path that is no file, and a directory with one file and a subdirectory
\* with one file
Directories ==
    {DirRoot(<<>>), DirRoot(<<<<File(<<"K", "P">>)>>, <<File(<<"P", "K">>)>>>>)}

Roots == {FileRoot(f) : f \in Files} \cup Directories

\* the clocks of one Fido.check: no slow evaluation, or a slow first pattern
\* of the first signature of the first format on the first root
DriverClocks == {{}, {<<<<1>>, 1, 1, 1>>}}

InitDriver ==
    /\ formats = DriverCatalog
    /\ bufsize = MaxBufsize
    /\ quiet \in BOOLEAN
    /\ current_count = 0
    /\ current_file = <<>>
    /\ current_filesize = 0
    /\ current_format = None
    /\ current_sig = None
    /\ current_pat = None
    /\ time_formats = {}
    /\ time_sigs = {}
    /\ clock \in DriverClocks
    /\ object = <<>>
    /\ bofbuffer = <<>>
    /\ eofbuffer = <<>>
    /\ matches = <<>>
    /\ sig = None
    /\ sigrun = Idle
    /\ roots \in SeqsUpTo(Roots, MaxRoots)
    /\ recurse \in BOOLEAN
    /\ zip \in BOOLEAN
    /\ idx = 0
    /\ stdout = <<>>
    /\ log = <<>>
    /\ pc = "main"

\* main after its lines up to the try statement left e
LeftStart(e) ==
    /\ stdout' = stdout \o Vals(e.events, "stdout")
    /\ pc' = IF e.raised = NoException THEN "idle" ELSE "exit"

\* main up to Fido.check: with -v it prints the version and exits
Start ==
    /\ pc = "main"
    /\ \E v \in BOOLEAN : LeftStart(start_of_main(v))
    /\ UNCHANGED <<formats, bufsize, quiet, current_count, current_file,
                   current_filesize, current_format, current_sig, current_pat,
                   time_formats, time_sigs, clock, object, bofbuffer, eofbuffer,
                   matches, sig, sigrun, roots, recurse, zip, idx, log>>

\* KeyboardInterrupt outside the try statement of main, at any point of the
\* lines that would leave e: nothing catches it, and it leaves main
Uncaught(e) ==
    \E n \in 0..Len(e.events) :
        /\ stdout' = stdout \o Vals(Cut(e, n).events, "stdout")
        /\ pc' = "interrupted"

\* KeyboardInterrupt before the try statement of main
InterruptStart ==
    /\ pc = "main"
    /\ \E v \in BOOLEAN : Uncaught(start_of_main(v))
    /\ UNCHANGED <<formats, bufsize, quiet, current_count, current_file,
                   current_filesize, current_format, current_sig, current_pat,
                   time_formats, time_sigs, clock, object, bofbuffer, eofbuffer,
                   matches, sig, sigrun, roots, recurse, zip, idx, log>>

\* Fido.check after one turn of its loop left e
LeftRoot(e) ==
    /\ Leaves(e)
    /\ pc' = IF e.raised = NoException THEN "idle" ELSE "raised"

\* one turn of the loop of Fido.check that no KeyboardInterrupt ends; an
\* exception that check_file_or_zip does not catch ends the loop
CheckRoot ==
    /\ pc = "idle"
    /\ idx < Len(roots)
    /\ idx' = idx + 1
    /\ LeftRoot(check_root(formats, bufsize, quiet, roots[idx + 1], idx + 1, recurse,
                           zip, clock))
    /\ UNCHANGED <<formats, bufsize, quiet, clock, object, sig, sigrun, roots,
                   recurse, zip>>

\* main after a KeyboardInterrupt left Fido.check and its except clause left
\* e: KeyboardInterrupt or AttributeError leaves main
LeftInterrupt(e) ==
    /\ Leaves(e)
    /\ pc' = IF e.raised = "AttributeError" THEN "aborted" ELSE "interrupted"

\* KeyboardInterrupt at any point of the part of Fido.check that would leave e
Interrupted(e) ==
    \E n \in 0..Len(e.events) :
        LeftInterrupt(except_KeyboardInterrupt(Cut(e, n), current_file, current_format,
                                               current_sig, current_pat))

\* the rest of Fido.check up to the end of the turn it is at, or up to its
\* return when no root is left
rest_of_turn(fs, B, q, rs, i, rec, z, ticks) ==
    IF i < Len(rs) THEN check_root(fs, B, q, rs[i + 1], i + 1, rec, z, ticks)
    ELSE NoEffect

\* KeyboardInterrupt inside Fido.check: before a turn of its loop does
\* anything, between two of the things the turn does, after the last, or
\* when no root is left; main writes where the run was and raises
Interrupt ==
    /\ pc = "idle"
    /\ Interrupted(rest_of_turn(formats, bufsize, quiet, roots, idx, recurse, zip, clock))
    /\ UNCHANGED <<formats, bufsize, quiet, clock, object, sig, sigrun, roots,
                   recurse, zip, idx>>

\* main after print_summary left e
LeftSummary(e) ==
    /\ stdout' = stdout \o Vals(e.events, "stdout")
    /\ pc' = IF e.raised = NoException THEN "exit" ELSE "failed"

\* main after Fido.check returned: lines 255 to 257, with the time measured
\* and the -diagnose flag
Summary ==
    /\ pc = "idle"
    /\ idx = Len(roots)
    /\ \E msecs \in Msecs, diagnose \in BOOLEAN,
          format_order \in Orders(time_formats), sig_order \in Orders(time_sigs) :
        LeftSummary(summary_of_main(quiet, formats, current_count, msecs, diagnose,
                                    format_order, sig_order))
    /\ UNCHANGED <<formats, bufsize, quiet, current_count, current_file,
                   current_filesize, current_format, current_sig, current_pat,
                   time_formats, time_sigs, clock, object, bofbuffer, eofbuffer,
                   matches, sig, sigrun, roots, recurse, zip, idx, log>>

\* KeyboardInterrupt after the try statement of main, at any point of lines
\* 255 to 257
InterruptSummary ==
    /\ pc = "idle"
    /\ idx = Len(roots)
    /\ \E msecs \in Msecs, diagnose \in BOOLEAN,
          format_order \in Orders(time_formats), sig_order \in Orders(time_sigs) :
        Uncaught(summary_of_main(quiet, formats, current_count, msecs, diagnose,
                                 format_order, sig_order))
    /\ UNCHANGED <<formats, bufsize, quiet, current_count, current_file,
                   current_filesize, current_format, current_sig, current_pat,
                   time_formats, time_sigs, clock, object, bofbuffer, eofbuffer,
                   matches, sig, sigrun, roots, recurse, zip, idx, log>>

NextDriver ==
    Start \/ InterruptStart \/ CheckRoot \/ Interrupt \/ Summary \/ InterruptSummary

SpecDriver == InitDriver /\ [][NextDriver]_vars

\* Fido.check has returned or was left by an exception of its own
Finished == pc = "raised" \/ (pc \in {"idle", "exit", "failed"} /\ idx = Len(roots))

\* the files of the batch, each with its path
Batch == UNION {Range(worklist(roots[i], i, recurse)) : i \in 1..Len(roots)}

RecordsOf(name) == SelectSeq(stdout, LAMBDA r : r.kind \in {"OK", "KO"} /\ r.name = name)

ErrorsOf(name) == SelectSeq(stdout, LAMBDA r : r.kind = "ERR" /\ r.name = name)

\* the sampling of the file raises: its open, its read or its seek fails
Unsampled(file) ==
    file.error # NoException \/ (file.size > bufsize /\ seek_fails(file.data, bufsize))

SampledNames == {log[k].name : k \in 1..Len(log)}

\* C6: an error while sampling one object never aborts the batch: when check
\* ends, with no slow evaluation, every file of the batch was sampled or had
\* its error reported.
C6_ErrorsDoNotAbort ==
    (Finished /\ clock = {}) =>
        \A w \in Batch :
            IF ~Unsampled(w.file) THEN w.name \in SampledNames
            ELSE Len(ErrorsOf(w.name)) = 1

\* the archives of the batch check_file_or_zip goes into and through: zip is
\* on, the file is a valid archive that matched as the zip format alone, and
\* each of its items opens and reads
Archives ==
    {w \in Batch :
        /\ zip
        /\ ~Unsampled(w.file)
        /\ w.file.is_zipfile
        /\ \A k \in 1..Len(w.file.items) : w.file.items[k].error = NoException
        /\ \E l \in Range(log) : l.name = w.name /\ is_zip(l.matches)}

\* the objects of the batch that can be sampled without error: the readable
\* files and the items of the archives
Objects ==
    {w.name : w \in {v \in Batch : ~Unsampled(v.file)}}
    \cup UNION {{Append(w.name, k) : k \in 1..Len(w.file.items)} : w \in Archives}

\* one Match record per pair, each with the match count, or one NoMatch record
Expected(name, ms, size) ==
    IF ms = <<>> THEN <<Record("KO", name, 0, 0, 0, size)>>
    ELSE [k \in 1..Len(ms) |->
             Record("OK", name, ms[k][1].FormatID, ms[k][2].SignatureID, Len(ms), size)]

\* C7: every object processed without a sampling error gets one Match record
\* per pair of its MatchResult, each with the match count, or one NoMatch
\* record when the MatchResult is empty; no object is left without a record.
C7_OneRecordPerMatch ==
    (idx = Len(roots) /\ pc \in {"idle", "exit", "failed"}) =>
        \A name \in Objects :
            \E l \in Range(log) :
                /\ l.name = name
                /\ RecordsOf(name) = Expected(name, l.matches, l.sample.size)

====
